---- MODULE Spec2Model ----
(***************************************************************************)
(* Model of the data-api-codec (src/index.js): the parameter pipeline      *)
(* (parseParams -> normalizeParams -> processParams -> formatType) and the *)
(* result pipeline (formatResults -> formatRecords -> formatRecordValue),  *)
(* with the timestamp codec (formatToTimeStamp / formatFromTimeStamp).     *)
(*                                                                         *)
(* JavaScript values are records tagged by the field k.  Strings are       *)
(* sequences of one-character strings, so that formatting and parsing are  *)
(* modelled character by character.  A plain object is the sequence of its *)
(* [key, val] entries in insertion order (the order of Object.keys).       *)
(***************************************************************************)
EXTENDS Integers, Sequences, FiniteSets, TLC

VARIABLES config, tz, legacy, pc, op, arg, out, chain, fmapLeft, prior

vars == <<config, tz, legacy, pc, op, arg, out, chain, fmapLeft, prior>>

(***************************************************************************)
(* JavaScript values                                                       *)
(***************************************************************************)
Undefined == [k |-> "undefined"]
Null == [k |-> "null"]
Str(s) == [k |-> "string", s |-> s]
Bool(b) == [k |-> "boolean", b |-> b]
Num(m, e) == [k |-> "number", cls |-> "finite", m |-> m, e |-> e]
NaN == [k |-> "number", cls |-> "NaN", m |-> 0, e |-> 0]
Infinity == [k |-> "number", cls |-> "Infinity", m |-> 1, e |-> 0]
Func == [k |-> "function"]
Symbol == [k |-> "symbol"]
Buffer(s) == [k |-> "buffer", bytes |-> s]
Obj(entries) == [k |-> "object", entries |-> entries]
Arr(items) == [k |-> "array", items |-> items]
DateOf(f) == [k |-> "date", valid |-> TRUE, f |-> f]
NoFields == [Y |-> 0, M |-> 0, D |-> 0, h |-> 0, mi |-> 0, s |-> 0, ms |-> 0]
InvalidDate == [k |-> "date", valid |-> FALSE, f |-> NoFields]

\* no value at all: an argument left out, a result not there
None == [k |-> "none"]

Entry(key, val) == [key |-> key, val |-> val]

\* Object.keys(o) of a plain object
Keys(o) == [i \in 1..Len(o.entries) |-> o.entries[i].key]

HasKey(o, key) == \E i \in 1..Len(o.entries) : o.entries[i].key = key

\* o[key]: the property value, undefined when the key is absent
Get(o, key) ==
  IF HasKey(o, key)
  THEN (CHOOSE e \in {o.entries[i] : i \in 1..Len(o.entries)} : e.key = key).val
  ELSE Undefined

\* ToBoolean
Truthy(v) ==
  CASE v.k = "undefined" -> FALSE
    [] v.k = "null" -> FALSE
    [] v.k = "boolean" -> v.b
    [] v.k = "string" -> Len(v.s) > 0
    [] v.k = "number" -> ~(v.cls = "NaN" \/ (v.cls = "finite" /\ v.m = 0))
    [] OTHER -> TRUE

\* typeof v === 'object'
TypeofObject(v) == v.k \in {"null", "object", "array", "date", "buffer"}

(***************************************************************************)
(* Decimal digits and Number <-> String                                    *)
(***************************************************************************)
DigitChars == <<"0", "1", "2", "3", "4", "5", "6", "7", "8", "9">>

IsDigit(c) == \E i \in 1..10 : DigitChars[i] = c

DigitVal(c) == (CHOOSE i \in 1..10 : DigitChars[i] = c) - 1

RECURSIVE NatToChars(_)
NatToChars(n) ==
  IF n < 10 THEN <<DigitChars[n + 1]>>
  ELSE NatToChars(n \div 10) \o <<DigitChars[(n % 10) + 1]>>

RECURSIVE Repeat(_, _)
Repeat(c, n) == IF n <= 0 THEN <<>> ELSE <<c>> \o Repeat(c, n - 1)

Abs(n) == IF n < 0 THEN -n ELSE n

RECURSIVE Pow10(_)
Pow10(n) == IF n <= 0 THEN 1 ELSE 10 * Pow10(n - 1)

\* a finite number m * 10^e in normal form (m not divisible by 10 unless 0)
RECURSIVE Normal(_, _)
Normal(m, e) ==
  IF m = 0 THEN Num(0, 0)
  ELSE IF m % 10 = 0 THEN Normal(m \div 10, e + 1)
  ELSE Num(m, e)

\* Number::toString(v), radix 10 (ECMA-262 6.1.6.1.20)
NumToChars(v) ==
  IF v.cls = "NaN" THEN <<"N", "a", "N">>
  ELSE IF v.cls = "Infinity"
    THEN (IF v.m < 0 THEN <<"-">> ELSE <<>>) \o <<"I", "n", "f", "i", "n", "i", "t", "y">>
  ELSE IF v.m = 0 THEN <<"0">>
  ELSE
    LET sign == IF v.m < 0 THEN <<"-">> ELSE <<>>
        ds == NatToChars(Abs(v.m))
        kk == Len(ds)
        n == kk + v.e
        ex == n - 1
    IN  sign \o
        ( IF kk <= n /\ n <= 21 THEN ds \o Repeat("0", n - kk)
          ELSE IF 0 < n /\ n <= 21
            THEN SubSeq(ds, 1, n) \o <<".">> \o SubSeq(ds, n + 1, kk)
          ELSE IF -6 < n /\ n <= 0
            THEN <<"0", ".">> \o Repeat("0", -n) \o ds
          ELSE <<ds[1]>>
               \o (IF kk > 1 THEN <<".">> \o SubSeq(ds, 2, kk) ELSE <<>>)
               \o <<"e">> \o (IF ex < 0 THEN <<"-">> ELSE <<"+">>)
               \o NatToChars(Abs(ex)) )

\* number of consecutive digits of s starting at index i
RECURSIVE DigitRun(_, _)
DigitRun(s, i) ==
  IF i <= Len(s) /\ IsDigit(s[i]) THEN 1 + DigitRun(s, i + 1) ELSE 0

\* the natural number written by the digits s[i .. i+n-1]
RECURSIVE DigitsVal(_, _, _)
DigitsVal(s, i, n) ==
  IF n = 0 THEN 0
  ELSE 10 * DigitsVal(s, i, n - 1) + DigitVal(s[i + n - 1])

StartsWith(s, i, w) ==
  /\ i + Len(w) - 1 <= Len(s)
  /\ SubSeq(s, i, i + Len(w) - 1) = w

\* parseInt(string): optional sign, then the leading digits; NaN without any
ParseIntChars(s) ==
  LET neg == Len(s) >= 1 /\ s[1] = "-"
      i == IF Len(s) >= 1 /\ s[1] \in {"-", "+"} THEN 2 ELSE 1
      n == DigitRun(s, i)
  IN  IF n = 0 THEN NaN
      ELSE Normal((IF neg THEN -1 ELSE 1) * DigitsVal(s, i, n), 0)

\* parseFloat(string): the longest prefix that is a StrDecimalLiteral
ParseFloatChars(s) ==
  LET neg == Len(s) >= 1 /\ s[1] = "-"
      sg == IF neg THEN -1 ELSE 1
      i == IF Len(s) >= 1 /\ s[1] \in {"-", "+"} THEN 2 ELSE 1
      ni == DigitRun(s, i)
      dot == i + ni <= Len(s) /\ s[i + ni] = "."
      nf == IF dot THEN DigitRun(s, i + ni + 1) ELSE 0
      j == i + ni + (IF dot THEN 1 + nf ELSE 0)
      hasE == j <= Len(s) /\ s[j] \in {"e", "E"}
      eneg == hasE /\ j + 1 <= Len(s) /\ s[j + 1] = "-"
      ej == IF hasE /\ j + 1 <= Len(s) /\ s[j + 1] \in {"-", "+"} THEN j + 2 ELSE j + 1
      ne == IF hasE THEN DigitRun(s, ej) ELSE 0
      ex == IF ne > 0 THEN (IF eneg THEN -1 ELSE 1) * DigitsVal(s, ej, ne) ELSE 0
      mant == DigitsVal(s, i, ni) * Pow10(nf) + DigitsVal(s, i + ni + 1, nf)
  IN  IF StartsWith(s, i, <<"I", "n", "f", "i", "n", "i", "t", "y">>)
        THEN [Infinity EXCEPT !.m = sg]
      ELSE IF ni + nf = 0 THEN NaN
      ELSE Normal(sg * mant, ex - nf)

\* ToString(v) for the values that reach parseInt, parseFloat and the regex
ToChars(v) ==
  CASE v.k = "string" -> v.s
    [] v.k = "number" -> NumToChars(v)
    [] v.k = "boolean" ->
         IF v.b THEN <<"t", "r", "u", "e">> ELSE <<"f", "a", "l", "s", "e">>
    [] v.k = "buffer" -> v.bytes
    [] v.k = "null" -> <<"n", "u", "l", "l">>
    [] OTHER -> <<"u", "n", "d", "e", "f", "i", "n", "e", "d">>

parseInt(v) == ParseIntChars(ToChars(v))

parseFloat(v) == ParseFloatChars(ToChars(v))

\* a === b for two numbers: NaN equals nothing
StrictEqNum(a, b) == a.cls # "NaN" /\ b.cls # "NaN" /\ a = b

(***************************************************************************)
(* Property names, tag names and literals used by the code                 *)
(***************************************************************************)
K_name == <<"n", "a", "m", "e">>
K_value == <<"v", "a", "l", "u", "e">>
K_cast == <<"c", "a", "s", "t">>
K_typeHint == <<"t", "y", "p", "e", "H", "i", "n", "t">>
K_id == <<"i", "d">>

T_arrayValue == <<"a", "r", "r", "a", "y", "V", "a", "l", "u", "e">>
T_blobValue == <<"b", "l", "o", "b", "V", "a", "l", "u", "e">>
T_booleanValue == <<"b", "o", "o", "l", "e", "a", "n", "V", "a", "l", "u", "e">>
T_doubleValue == <<"d", "o", "u", "b", "l", "e", "V", "a", "l", "u", "e">>
T_isNull == <<"i", "s", "N", "u", "l", "l">>
T_longValue == <<"l", "o", "n", "g", "V", "a", "l", "u", "e">>
T_stringValue == <<"s", "t", "r", "i", "n", "g", "V", "a", "l", "u", "e">>
T_structValue == <<"s", "t", "r", "u", "c", "t", "V", "a", "l", "u", "e">>

TIMESTAMP == <<"T", "I", "M", "E", "S", "T", "A", "M", "P">>

\* Supported value types in the Data API
supportedTypes ==
  { T_arrayValue, T_blobValue, T_booleanValue, T_doubleValue,
    T_isNull, T_longValue, T_stringValue, T_structValue }

(***************************************************************************)
(* Results of a call: a value, or a thrown error                           *)
(***************************************************************************)
Ok(v) == [ok |-> TRUE, val |-> v]

\* throw Error(`'${quoted}' ` + text); quoted is Undefined when the message
\* interpolates nothing
Thrown(type, quoted, text) ==
  [ok |-> FALSE, error |-> [type |-> type, quoted |-> quoted, text |-> text]]

\* Simple error function
error(quoted, text) == Thrown("Error", quoted, text)

(***************************************************************************)
(* Calendar: a valid Date is the record of its UTC fields (M is 0-based,   *)
(* as getUTCMonth returns it); tz is the zone of the process, in hours     *)
(* east of UTC                                                             *)
(***************************************************************************)
IsLeap(y) == (y % 4 = 0 /\ y % 100 # 0) \/ y % 400 = 0

DaysIn(y, m0) ==
  IF m0 = 1 THEN (IF IsLeap(y) THEN 29 ELSE 28)
  ELSE IF m0 \in {3, 5, 8, 10} THEN 30 ELSE 31

NextDay(f) ==
  IF f.D < DaysIn(f.Y, f.M) THEN [f EXCEPT !.D = f.D + 1]
  ELSE IF f.M < 11 THEN [f EXCEPT !.D = 1, !.M = f.M + 1]
  ELSE [f EXCEPT !.D = 1, !.M = 0, !.Y = f.Y + 1]

PrevDay(f) ==
  IF f.D > 1 THEN [f EXCEPT !.D = f.D - 1]
  ELSE IF f.M > 0 THEN [f EXCEPT !.D = DaysIn(f.Y, f.M - 1), !.M = f.M - 1]
  ELSE [f EXCEPT !.D = 31, !.M = 11, !.Y = f.Y - 1]

\* the fields k hours later, -23 <= k <= 23
AddHours(f, k) ==
  LET hh == f.h + k
  IN  IF hh >= 24 THEN [NextDay(f) EXCEPT !.h = hh - 24]
      ELSE IF hh < 0 THEN [PrevDay(f) EXCEPT !.h = hh + 24]
      ELSE [f EXCEPT !.h = hh]

\* getFullYear(), getMonth(), ... : the fields in the zone of the process
LocalFields(f) == AddHours(f, tz)

\* the instant whose local fields are f
FromLocalFields(f) == AddHours(f, -tz)

ValidFields(f) ==
  /\ f.M \in 0..11
  /\ f.D \in 1..DaysIn(f.Y, f.M)
  /\ f.h \in 0..23 /\ f.mi \in 0..59 /\ f.s \in 0..59 /\ f.ms \in 0..999

(***************************************************************************)
(* Type inference and formatting of one parameter                          *)
(***************************************************************************)
isDate(val) == val.k = "date"

\* Buffer.isBuffer(val)
isBuffer(val) == val.k = "buffer"

\* Object.keys(val) for any value: the keys of a plain object, the indices
\* of an array, nothing for a Date or a primitive
ObjectKeys(val) ==
  CASE val.k = "object" -> Keys(val)
    [] val.k = "array" -> [i \in 1..Len(val.items) |-> NatToChars(i - 1)]
    [] val.k = "string" -> [i \in 1..Len(val.s) |-> NatToChars(i - 1)]
    [] OTHER -> <<>>

\* the two results of getType that are no tag name: null and undefined
JSnull == <<"null">>
JSundefined == <<"undefined">>

\* getType with the two number rules in the other order
getType_doubleFirst(val) ==
  IF val.k = "string" THEN T_stringValue
  ELSE IF val.k = "boolean" THEN T_booleanValue
  ELSE IF val.k = "number" /\ StrictEqNum(parseFloat(val), val) THEN T_doubleValue
  ELSE IF val.k = "number" /\ StrictEqNum(parseInt(val), val) THEN T_longValue
  ELSE IF val.k = "null" THEN T_isNull
  ELSE IF isDate(val) THEN T_stringValue
  ELSE IF isBuffer(val) THEN T_blobValue
  ELSE IF /\ TypeofObject(val)
          /\ Len(ObjectKeys(val)) = 1
          /\ ObjectKeys(val)[1] \in supportedTypes THEN JSnull
  ELSE JSundefined

\* Gets the value type and returns the correct value field name: a tag name,
\* JSnull for a value that is already in wire shape, JSundefined otherwise
getType(val) ==
  IF val.k = "string" THEN T_stringValue
  ELSE IF val.k = "boolean" THEN T_booleanValue
  ELSE IF val.k = "number" /\ StrictEqNum(parseInt(val), val) THEN T_longValue
  ELSE IF val.k = "number" /\ StrictEqNum(parseFloat(val), val) THEN T_doubleValue
  ELSE IF val.k = "null" THEN T_isNull
  ELSE IF isDate(val) THEN T_stringValue
  ELSE IF isBuffer(val) THEN T_blobValue
  ELSE IF /\ TypeofObject(val)
          /\ Len(ObjectKeys(val)) = 1
          /\ ObjectKeys(val)[1] \in supportedTypes THEN JSnull
  ELSE JSundefined

\* Hint to specify the underlying object type for data type mapping
getTypeHint(val) == IF isDate(val) THEN Str(TIMESTAMP) ELSE Undefined

\* pad that adds no zeros
pad_none(val, num) == NatToChars(val)

\* pad(val,num): '0'.repeat(num-(val + '').length) + val, for the fields of a
\* valid Date, which never have more than num digits
pad(val, num) == Repeat("0", num - Len(NatToChars(val))) \o NatToChars(val)

\* Formats the date to YYYY-MM-DD HH:MM:SS[.FFF], from its UTC fields or,
\* when treatAsLocalDate, from its fields in the zone of the process.  The
\* fields of an Invalid Date are NaN, and pad(NaN) calls '0'.repeat(-1), which
\* throws: formatType raises that RangeError in place of this call
formatToTimeStamp(date, treatAsLocalDate) ==
  LET f == IF treatAsLocalDate THEN LocalFields(date.f) ELSE date.f
      year == f.Y
      month == f.M + 1
      fraction == IF f.ms <= 0 THEN <<>> ELSE <<".">> \o pad(f.ms, 3)
  IN  NatToChars(year) \o <<"-">> \o pad(month, 2) \o <<"-">> \o pad(f.D, 2)
      \o <<" ">> \o pad(f.h, 2) \o <<":">> \o pad(f.mi, 2) \o <<":">> \o pad(f.s, 2)
      \o fraction

\* Creates a standard Data API parameter using the supplied inputs
formatType(name, value, type, typeHint, formatOptions) ==
  LET head == IF typeHint.k \notin {"undefined", "null"}
                THEN <<Entry(K_name, name), Entry(K_typeHint, typeHint)>>
                ELSE <<Entry(K_name, name)>>
      inner == IF type = T_isNull THEN Bool(TRUE)
               ELSE IF isDate(value)
                 THEN Str(formatToTimeStamp(value, formatOptions.treatAsLocalDate))
               ELSE value
  IN  IF type = JSnull THEN Ok(Obj(head \o <<Entry(K_value, value)>>))
      ELSE IF type = JSundefined THEN error(name, "is an invalid type")
      ELSE IF isDate(value) /\ ~value.valid
        THEN Thrown("RangeError", Undefined, "Invalid count value: -1")
      ELSE Ok(Obj(head \o <<Entry(K_value, Obj(<<Entry(type, inner)>>))>>))

\* Converts parameter to the name/value format
formatParam(n, v, formatOptions) ==
  formatType(n, v, getType(v), getTypeHint(v), formatOptions)

(***************************************************************************)
(* The parameter pipeline                                                  *)
(***************************************************************************)
K_parameters == <<"p", "a", "r", "a", "m", "e", "t", "e", "r", "s">>

S_undefined == <<"u", "n", "d", "e", "f", "i", "n", "e", "d">>

\* p[key] for any value p: a property of a plain object, undefined otherwise
Prop(p, key) == IF p.k = "object" THEN Get(p, key) ELSE Undefined

\* Parse the parameters from provided arguments (args[0] is args[1] here)
parseParams(args) ==
  LET a0 == Prop(args[1], K_parameters)
      a1 == IF Len(args) >= 2 THEN args[2] ELSE Undefined
  IN  IF a0.k = "array" THEN Ok(a0.items)
      ELSE IF TypeofObject(a0) THEN Ok(<<a0>>)
      ELSE IF a1.k = "array" THEN Ok(a1.items)
      ELSE IF TypeofObject(a1) THEN Ok(<<a1>>)
      ELSE IF Truthy(a0) THEN error(Undefined, "'parameters' must be an object or array")
      ELSE IF Truthy(a1) THEN error(Undefined, "Parameters must be an object or array")
      ELSE Ok(<<>>)

\* Converts object params into name/value format
splitParams(p) ==
  LET ks == ObjectKeys(p)
  IN  [i \in 1..Len(ks) |->
         Obj(<<Entry(K_name, Str(ks[i])), Entry(K_value, Prop(p, ks[i]))>>)]

\* the test of normalizeParams that takes p for a parameter already in
\* { name, value [, cast] } form
isAtomicParam(p) ==
  \/ /\ Len(ObjectKeys(p)) = 2
     /\ Truthy(Prop(p, K_name))
     /\ Prop(p, K_value) # Str(S_undefined)
  \/ /\ Len(ObjectKeys(p)) = 3
     /\ Truthy(Prop(p, K_name))
     /\ Prop(p, K_value) # Str(S_undefined)
     /\ Truthy(Prop(p, K_cast))

\* Normalize parameters so that they are all in standard format: the reduce
\* over params[i..]; Object.keys(null) and Object.keys(undefined) throw
RECURSIVE normalizeFrom(_, _)
normalizeFrom(params, i) ==
  IF i > Len(params) THEN Ok(<<>>)
  ELSE
    LET p == params[i]
        head == IF p.k = "array"
                  THEN (LET sub == normalizeFrom(p.items, 1)
                        IN  IF sub.ok THEN Ok(<<Arr(sub.val)>>) ELSE sub)
                ELSE IF p.k \in {"null", "undefined"}
                  THEN Thrown("TypeError", Undefined, "Cannot convert undefined or null to object")
                ELSE IF isAtomicParam(p) THEN Ok(<<p>>)
                ELSE Ok(splitParams(p))
    IN  IF ~head.ok THEN head
        ELSE LET rest == normalizeFrom(params, i + 1)
             IN  IF rest.ok THEN Ok(head.val \o rest.val) ELSE rest

normalizeParams(params) == normalizeFrom(params, 1)

\* Prepare parameters: the reduce over params[i..]; the first throw of
\* formatParam ends the call
RECURSIVE processFrom(_, _, _)
\* processFrom that leaves out a parameter of an invalid type and goes on
processFrom_skipInvalid(params, formatOptions, i) ==
  IF i > Len(params) THEN Ok(<<>>)
  ELSE
    LET p == params[i]
        head == IF p.k = "array"
                  THEN (LET sub == processFrom(p.items, formatOptions, 1)
                        IN  IF sub.ok THEN Ok(<<Arr(sub.val)>>) ELSE sub)
                ELSE (LET one == formatParam(Prop(p, K_name), Prop(p, K_value), formatOptions)
                      IN  IF one.ok THEN Ok(<<one.val>>) ELSE Ok(<<>>))
    IN  IF ~head.ok THEN head
        ELSE LET rest == processFrom(params, formatOptions, i + 1)
             IN  IF rest.ok THEN Ok(head.val \o rest.val) ELSE rest

processFrom(params, formatOptions, i) ==
  IF i > Len(params) THEN Ok(<<>>)
  ELSE
    LET p == params[i]
        head == IF p.k = "array"
                  THEN (LET sub == processFrom(p.items, formatOptions, 1)
                        IN  IF sub.ok THEN Ok(<<Arr(sub.val)>>) ELSE sub)
                ELSE (LET one == formatParam(Prop(p, K_name), Prop(p, K_value), formatOptions)
                      IN  IF one.ok THEN Ok(<<one.val>>) ELSE one)
    IN  IF ~head.ok THEN head
        ELSE LET rest == processFrom(params, formatOptions, i + 1)
             IN  IF rest.ok THEN Ok(head.val \o rest.val) ELSE rest

processParams(engine, params, formatOptions) == processFrom(params, formatOptions, 1)

\* Format parameters method, pass parameters
formatParameters(p) ==
  LET parsed == parseParams(<<Obj(<<Entry(K_parameters, p)>>)>>)
      normal == IF parsed.ok THEN normalizeParams(parsed.val) ELSE parsed
  IN  IF normal.ok
        THEN processParams(config.engine, normal.val, config.formatOptions)
        ELSE normal

(***************************************************************************)
(* Timestamp parsing: new Date(string)                                     *)
(***************************************************************************)
IsSpace(c) == c \in {" ", "\t", "\n", "\r"}

\* /^\d{4}-\d{2}-\d{2}(\s\d{2}:\d{2}:\d{2}(\.\d{3})?)?$/.test(s)
timestampRegex(s) ==
  LET dateOk == /\ Len(s) >= 10
                /\ DigitRun(s, 1) >= 4 /\ s[5] = "-"
                /\ DigitRun(s, 6) >= 2 /\ s[8] = "-"
                /\ DigitRun(s, 9) >= 2
      timeOk == /\ Len(s) >= 19
                /\ IsSpace(s[11])
                /\ DigitRun(s, 12) >= 2 /\ s[14] = ":"
                /\ DigitRun(s, 15) >= 2 /\ s[17] = ":"
                /\ DigitRun(s, 18) >= 2
      fracOk == /\ Len(s) = 23
                /\ s[20] = "." /\ DigitRun(s, 21) = 3
  IN  /\ dateOk
      /\ \/ Len(s) = 10
         \/ timeOk /\ Len(s) = 19
         \/ timeOk /\ fracOk

\* the date Y..Y-MM-DD at the start of s, with ny year digits
HasDate(s, ny) ==
  /\ ny >= 1 /\ Len(s) >= ny + 6
  /\ s[ny + 1] = "-" /\ DigitRun(s, ny + 2) = 2
  /\ s[ny + 4] = "-" /\ DigitRun(s, ny + 5) = 2

\* the time HH:MM:SS after the date and one white space at index q
HasTime(s, q) ==
  /\ Len(s) >= q + 8
  /\ IsSpace(s[q])
  /\ DigitRun(s, q + 1) = 2 /\ s[q + 3] = ":"
  /\ DigitRun(s, q + 4) = 2 /\ s[q + 6] = ":"
  /\ DigitRun(s, q + 7) >= 2

\* the fraction .FFF at index t
HasFrac(s, t) == Len(s) >= t + 3 /\ s[t] = "." /\ DigitRun(s, t + 1) = 3

\* s ends at index z - 1, or with a Z at index z
ShapeEnd(s, ny, hasTime, hasFrac, z) ==
  [ ok |-> (Len(s) = z /\ s[z] = "Z") \/ Len(s) = z - 1,
    ny |-> ny, hasTime |-> hasTime, hasFrac |-> hasFrac,
    hasZ |-> Len(s) = z /\ s[z] = "Z" ]

ShapeFrac(s, ny, hasTime, t) ==
  IF hasTime /\ HasFrac(s, t)
    THEN ShapeEnd(s, ny, hasTime, TRUE, t + 4)
    ELSE ShapeEnd(s, ny, hasTime, FALSE, t)

ShapeTime(s, ny) ==
  IF HasTime(s, ny + 7)
    THEN ShapeFrac(s, ny, TRUE, ny + 16)
    ELSE ShapeFrac(s, ny, FALSE, ny + 7)

NoShape == [ok |-> FALSE, ny |-> 0, hasTime |-> FALSE, hasFrac |-> FALSE, hasZ |-> FALSE]

ShapeDate(s, ny) == IF HasDate(s, ny) THEN ShapeTime(s, ny) ELSE NoShape

\* the shape Y..Y-MM-DD[ HH:MM:SS[.FFF]][Z] of s, with ny year digits
StampShape(s) == ShapeDate(s, DigitRun(s, 1))

\* the calendar fields written in s, whose shape is sh
StampFields(s, sh) ==
  [ Y |-> DigitsVal(s, 1, sh.ny),
    M |-> DigitsVal(s, sh.ny + 2, 2) - 1,
    D |-> DigitsVal(s, sh.ny + 5, 2),
    h |-> IF sh.hasTime THEN DigitsVal(s, sh.ny + 8, 2) ELSE 0,
    mi |-> IF sh.hasTime THEN DigitsVal(s, sh.ny + 11, 2) ELSE 0,
    s |-> IF sh.hasTime THEN DigitsVal(s, sh.ny + 14, 2) ELSE 0,
    ms |-> IF sh.hasFrac THEN DigitsVal(s, sh.ny + 17, 3) ELSE 0 ]

\* the Date of the valid fields f read from a string of shape sh.  A trailing
\* Z and the ISO date-only form YYYY-MM-DD mean UTC; a date and time without
\* zone are local time (V8's fallback parser); what the fallback parser makes
\* of a year that has not four digits is left to the runtime (ECMA-262
\* 21.4.3.2): local time, or an Invalid Date
DateOfFields(sh, f) ==
  IF ~ValidFields(f) THEN InvalidDate
  ELSE IF sh.hasZ \/ (sh.ny = 4 /\ ~sh.hasTime) THEN DateOf(f)
  ELSE IF sh.ny = 4 \/ legacy = "local" THEN DateOf(FromLocalFields(f))
  ELSE InvalidDate

DateOfShape(s, sh) ==
  IF sh.ok THEN DateOfFields(sh, StampFields(s, sh)) ELSE InvalidDate

\* Date.parse(s)
DateParse(s) == DateOfShape(s, StampShape(s))

\* the Date of the time value t milliseconds, -60000 < t < 60000
DateFromMs(t) ==
  IF t >= 0
  THEN DateOf([Y |-> 1970, M |-> 0, D |-> 1, h |-> 0, mi |-> 0,
               s |-> t \div 1000, ms |-> t % 1000])
  ELSE DateOf([Y |-> 1969, M |-> 11, D |-> 31, h |-> 23, mi |-> 59,
               s |-> (60000 + t) \div 1000, ms |-> (60000 + t) % 1000])

\* a finite number of 10^16 or more in magnitude is beyond the time values
\* of a Date (8.64 * 10^15)
BeyondTimeRange(v) == v.m # 0 /\ Len(NatToChars(Abs(v.m))) + v.e > 16

\* ToIntegerOrInfinity of a finite number
Trunc(v) ==
  IF v.e >= 0 THEN v.m * Pow10(v.e)
  ELSE (IF v.m < 0 THEN -1 ELSE 1) * (Abs(v.m) \div Pow10(-v.e))

\* new Date(value) for a value that is not turned into a string: it is
\* converted to a number of milliseconds
DateFromValue(value) ==
  CASE value.k = "date" -> value
    [] value.k = "number" ->
         IF value.cls = "finite" /\ ~BeyondTimeRange(value)
           THEN DateFromMs(Trunc(value)) ELSE InvalidDate
    [] value.k = "boolean" -> DateFromMs(IF value.b THEN 1 ELSE 0)
    [] value.k = "null" -> DateFromMs(0)
    [] OTHER -> InvalidDate

\* new Date(chars) when asString, new Date(value) otherwise
DateFrom(asString, chars, value) ==
  IF asString THEN DateParse(chars) ELSE DateFromValue(value)

\* the string handed to Date.parse: value + 'Z' when the regex matched,
\* else the string value itself (a Buffer converts to its text)
ParsedChars(matched, chars) == IF matched THEN chars \o <<"Z">> ELSE chars

FromTimeStamp(value, chars, matched) ==
  DateFrom(matched \/ value.k \in {"string", "buffer"}, ParsedChars(matched, chars), value)

\* Converts the string value to a Date object
formatFromTimeStamp(value, treatAsLocalDate) ==
  FromTimeStamp(value, ToChars(value), ~treatAsLocalDate /\ timestampRegex(ToChars(value)))

(***************************************************************************)
(* The result pipeline                                                     *)
(***************************************************************************)
K_columnMetadata == <<"c", "o", "l", "u", "m", "n", "M", "e", "t", "a", "d", "a", "t", "a">>
K_numberOfRecordsUpdated ==
  <<"n", "u", "m", "b", "e", "r", "O", "f", "R", "e", "c", "o", "r", "d", "s",
    "U", "p", "d", "a", "t", "e", "d">>
K_records == <<"r", "e", "c", "o", "r", "d", "s">>
K_generatedFields ==
  <<"g", "e", "n", "e", "r", "a", "t", "e", "d", "F", "i", "e", "l", "d", "s">>
K_updateResults == <<"u", "p", "d", "a", "t", "e", "R", "e", "s", "u", "l", "t", "s">>
K_insertId == <<"i", "n", "s", "e", "r", "t", "I", "d">>
K_label == <<"l", "a", "b", "e", "l">>
K_typeName == <<"t", "y", "p", "e", "N", "a", "m", "e">>

TN_DATE == <<"D", "A", "T", "E">>
TN_DATETIME == <<"D", "A", "T", "E", "T", "I", "M", "E">>
TN_TIMESTAMP == TIMESTAMP
TN_TIMESTAMPTZ ==
  <<"T", "I", "M", "E", "S", "T", "A", "M", "P", " ", "W", "I", "T", "H", " ",
    "T", "I", "M", "E", " ", "Z", "O", "N", "E">>

dateTypeNames == {Str(TN_DATE), Str(TN_DATETIME), Str(TN_TIMESTAMP), Str(TN_TIMESTAMPTZ)}

\* Object.assign(o, { [key]: val }): a new key goes last, an old one keeps
\* its place
\* Assign that keeps the value a key already has
Assign_keepFirst(o, key, val) ==
  IF HasKey(o, key) THEN o ELSE Obj(Append(o.entries, Entry(key, val)))

Assign(o, key, val) ==
  IF HasKey(o, key)
  THEN Obj([i \in 1..Len(o.entries) |->
              IF o.entries[i].key = key THEN Entry(key, val) ELSE o.entries[i]])
  ELSE Obj(Append(o.entries, Entry(key, val)))

\* ToPropertyKey(v) for a label
PropertyKey(v) == ToChars(v)

\* Format record value based on its value, the database column's typeName
\* and the formatting options
formatRecordValue(value, typeName, formatOptions) ==
  IF formatOptions.deserializeDate /\ typeName \in dateTypeNames
    THEN formatFromTimeStamp(value,
           formatOptions.treatAsLocalDate \/ typeName = Str(TN_TIMESTAMPTZ))
    ELSE value

\* initFmap that takes each column's tag from the first row at once
initFmap_eager(recs, columns) ==
  IF Len(recs) >= 1
  THEN [i \in 1..Len(recs[1].items) |->
          [ label |-> IF Truthy(columns) THEN Prop(columns.items[i], K_label) ELSE Undefined,
            typeName |-> IF Truthy(columns) THEN Prop(columns.items[i], K_typeName) ELSE Undefined,
            field |-> recs[1].items[i].entries[1].key ]]
  ELSE <<>>

\* initFmap that takes up the map the last call left, when it has the width
\* of the first row
initFmap_shared(recs, columns) ==
  IF Len(recs) >= 1
  THEN [i \in 1..Len(recs[1].items) |->
          [ label |-> IF Truthy(columns) THEN Prop(columns.items[i], K_label) ELSE Undefined,
            typeName |-> IF Truthy(columns) THEN Prop(columns.items[i], K_typeName) ELSE Undefined,
            field |-> IF fmapLeft # None /\ Len(fmapLeft) = Len(recs[1].items)
                        THEN fmapLeft[i].field
                      ELSE JSundefined ]]
  ELSE <<>>

\* Create map for efficient value parsing: one entry per field of the first
\* row, with the column's label and typeName and no field tag yet
initFmap(recs, columns) ==
  IF Len(recs) >= 1
  THEN [i \in 1..Len(recs[1].items) |->
          [ label |-> IF Truthy(columns) THEN Prop(columns.items[i], K_label) ELSE Undefined,
            typeName |-> IF Truthy(columns) THEN Prop(columns.items[i], K_typeName) ELSE Undefined,
            field |-> JSundefined ]]
  ELSE <<>>

\* Look for non-null fields: the tag left in fmap[i].field after the keys of
\* field[j..] have been visited, the last one that qualifies winning
RECURSIVE discoverFrom(_, _, _)
RECURSIVE discoverFrom_truthy(_, _, _)
\* discoverFrom that asks for a truthy value in place of one that is not null
discoverFrom_truthy(field, j, tag) ==
  IF j > Len(field.entries) THEN tag
  ELSE discoverFrom_truthy(field, j + 1,
         IF field.entries[j].key # T_isNull /\ Truthy(field.entries[j].val)
           THEN field.entries[j].key ELSE tag)

discoverFrom(field, j, tag) ==
  IF j > Len(field.entries) THEN tag
  ELSE discoverFrom(field, j + 1,
         IF field.entries[j].key # T_isNull /\ field.entries[j].val # Null
           THEN field.entries[j].key ELSE tag)

\* field[tag], undefined when tag is undefined
FieldAt(field, tag) == IF tag = JSundefined THEN Undefined ELSE Get(field, tag)

\* Reduce each field in the record (row), from field i on: the row built
\* and the map as the row leaves it
RECURSIVE reduceRow(_, _, _, _, _, _)
reduceRow(rec, i, acc, fmap, hydrate, formatOptions) ==
  IF i > Len(rec.items) THEN [row |-> acc, fmap |-> fmap]
  ELSE
    LET field == rec.items[i]
        put(v) == IF hydrate THEN Assign(acc, PropertyKey(fmap[i].label), v)
                  ELSE Arr(Append(acc.items, v))
    IN  IF Get(field, T_isNull) = Bool(TRUE)
          THEN reduceRow(rec, i + 1, put(Null), fmap, hydrate, formatOptions)
        ELSE IF fmap[i].field # JSundefined
          THEN reduceRow(rec, i + 1,
                 put(formatRecordValue(Get(field, fmap[i].field), fmap[i].typeName, formatOptions)),
                 fmap, hydrate, formatOptions)
        ELSE
          LET tag == discoverFrom(field, 1, fmap[i].field)
              fmap2 == [fmap EXCEPT ![i].field = tag]
          IN  reduceRow(rec, i + 1,
                put(formatRecordValue(FieldAt(field, tag), fmap2[i].typeName, formatOptions)),
                fmap2, hydrate, formatOptions)

\* Map over all the records (rows), from row r on, threading the map
RECURSIVE mapRecords(_, _, _, _, _)
mapRecords(recs, r, fmap, hydrate, formatOptions) ==
  IF r > Len(recs) THEN <<>>
  ELSE
    LET one == reduceRow(recs[r], 1, IF hydrate THEN Obj(<<>>) ELSE Arr(<<>>),
                         fmap, hydrate, formatOptions)
    IN  <<one.row>> \o mapRecords(recs, r + 1, one.fmap, hydrate, formatOptions)

\* the map as the rows from r on leave it
RECURSIVE fmapAfter(_, _, _, _, _)
fmapAfter(recs, r, m, hydrate, formatOptions) ==
  IF r > Len(recs) THEN m
  ELSE fmapAfter(recs, r + 1,
         reduceRow(recs[r], 1, IF hydrate THEN Obj(<<>>) ELSE Arr(<<>>),
                   m, hydrate, formatOptions).fmap,
         hydrate, formatOptions)

\* Processes records and either extracts Typed Values into an array, or
\* object with named column labels
formatRecords(recs, columns, hydrate, formatOptions) ==
  Arr(mapRecords(recs.items, 1, initFmap(recs.items, columns), hydrate, formatOptions))

\* generatedFields[0].longValue as { insertId } when there is a generated field
insertIdOf(generatedFields) ==
  IF Truthy(generatedFields) /\ Len(generatedFields.items) > 0
    THEN <<Entry(K_insertId, Prop(generatedFields.items[1], T_longValue))>>
    ELSE <<>>

\* Format updateResults and extract insertIds
formatUpdateResults(res) ==
  Arr([i \in 1..Len(res.items) |->
         Obj(insertIdOf(Prop(res.items[i], K_generatedFields)))])

\* Formats the results of a query response
formatResults(r, hydrate, includeMeta, formatOptions) ==
  LET columnMetadata == Prop(r, K_columnMetadata)
      numberOfRecordsUpdated == Prop(r, K_numberOfRecordsUpdated)
      records == Prop(r, K_records)
      generatedFields == Prop(r, K_generatedFields)
      updateResults == Prop(r, K_updateResults)
  IN  Obj(
        (IF Truthy(includeMeta) THEN <<Entry(K_columnMetadata, columnMetadata)>> ELSE <<>>)
        \o (IF numberOfRecordsUpdated # Undefined /\ ~Truthy(records)
              THEN <<Entry(K_numberOfRecordsUpdated, numberOfRecordsUpdated)>> ELSE <<>>)
        \o (IF Truthy(records)
              THEN <<Entry(K_records, formatRecords(records, columnMetadata, hydrate, formatOptions))>>
              ELSE <<>>)
        \o (IF Truthy(updateResults)
              THEN <<Entry(K_updateResults, formatUpdateResults(updateResults))>> ELSE <<>>)
        \o insertIdOf(generatedFields))

\* Format response method, pass response
formatResponse(r) ==
  formatResults(r, config.hydrateColumnNames, Prop(r, K_columnMetadata), config.formatOptions)

(***************************************************************************)
(* Instantiation                                                           *)
(***************************************************************************)
K_deserializeDate ==
  <<"d", "e", "s", "e", "r", "i", "a", "l", "i", "z", "e", "D", "a", "t", "e">>
K_treatAsLocalDate ==
  <<"t", "r", "e", "a", "t", "A", "s", "L", "o", "c", "a", "l", "D", "a", "t", "e">>

\* Set the configuration for this instance; treatAsLocalDate is kept by its
\* truth value, the only way the code reads it
init(params) ==
  [ engine |-> IF params.engine.k = "string" THEN params.engine ELSE Str(<<"m", "y", "s", "q", "l">>),
    hydrateColumnNames |->
      IF params.hydrateColumnNames.k = "boolean" THEN params.hydrateColumnNames.b ELSE TRUE,
    formatOptions |->
      [ deserializeDate |->
          ~(TypeofObject(params.formatOptions)
            /\ Prop(params.formatOptions, K_deserializeDate) = Bool(FALSE)),
        treatAsLocalDate |->
          TypeofObject(params.formatOptions)
          /\ Truthy(Prop(params.formatOptions, K_treatAsLocalDate)) ] ]

(***************************************************************************)
(* Inputs                                                                  *)
(***************************************************************************)
MaxParams == 3
MaxRows == 3

SeqsUpTo(S, n) == UNION {[1..k -> S] : k \in 0..n}

InitParams ==
  [ engine : {Undefined},
    hydrateColumnNames : {Undefined, Bool(FALSE)},
    formatOptions :
      { Undefined,
        Obj(<<Entry(K_deserializeDate, Bool(FALSE))>>),
        Obj(<<Entry(K_treatAsLocalDate, Bool(TRUE))>>),
        Obj(<<Entry(K_deserializeDate, Bool(FALSE)), Entry(K_treatAsLocalDate, Bool(TRUE))>>) } ]

\* zones of the process, in hours east of UTC
Zones == {0, 1}

\* what the runtime's fallback date parser does with a year of other than
\* four digits
LegacyParsers == {"local", "invalid"}

S_A == <<"A">>
S_hi == <<"h", "i">>
S_c == <<"c">>
K_nm == <<"n", "m">>
K_foo == <<"f", "o", "o">>

Dates ==
  { DateOf([Y |-> y, M |-> m, D |-> d, h |-> hh, mi |-> 5, s |-> ss, ms |-> ms]) :
      y \in {999, 2020}, m \in {0, 11}, d \in {1, 31}, hh \in {0, 23},
      ss \in {0, 59}, ms \in {0, 5, 50, 500} }

WireValues ==
  { Obj(<<Entry(T_stringValue, Str(S_hi))>>),
    Obj(<<Entry(T_isNull, Bool(TRUE))>>),
    Obj(<<Entry(T_longValue, Num(0, 0))>>) }

Supported ==
  { Str(<<>>), Str(S_hi), Bool(TRUE), Bool(FALSE),
    Num(5, 0), Num(55, -1), Num(0, 0), Num(-3, 0), Num(5, 1), Num(-5, -1),
    Num(1, 21), Num(1, -7), Infinity, Null, Buffer(S_hi), Buffer(<<>>) }
  \cup Dates

Unsupported ==
  { Undefined, Func, Symbol, NaN, Obj(<<>>), Arr(<<>>), Arr(<<Num(1, 0)>>),
    Obj(<<Entry(K_foo, Num(1, 0))>>),
    Obj(<<Entry(T_stringValue, Str(S_hi)), Entry(T_longValue, Num(1, 0))>>) }

Values == Supported \cup Unsupported \cup WireValues \cup {InvalidDate}

\* an argument that is neither an object nor an array, or nothing at all
PlainArgs ==
  { Undefined, Null, Func, Str(<<>>), Str(S_hi), Num(0, 0), Num(5, 0), NaN,
    Bool(TRUE), Bool(FALSE) }

FewValues ==
  { Num(1, 0), Str(S_A), Str(<<>>), Func, Obj(<<Entry(T_stringValue, Str(S_hi))>>) }

\* one mapping of one name
OneKeyArgs ==
  { Obj(<<Entry(K_id, v)>>) : v \in Values }
  \cup { Obj(<<Entry(K_name, v)>>) : v \in FewValues }

\* one mapping of two names
TwoKeyArgs ==
  { Obj(<<Entry(k1, v1), Entry(k2, v2)>>) :
      k1 \in {K_id, K_name, K_value, K_cast}, k2 \in {K_id, K_name, K_value, K_cast},
      v1 \in FewValues, v2 \in FewValues } \ 
  { Obj(<<Entry(k1, v1), Entry(k1, v2)>>) :
      k1 \in {K_id, K_name, K_value, K_cast}, v1 \in FewValues, v2 \in FewValues }

\* one mapping of three names: name, cast and value or id
ThreeKeyArgs ==
  { Obj(<<Entry(K_name, n), Entry(k2, v), Entry(K_cast, c)>>) :
      n \in {Str(S_A), Str(<<>>)}, k2 \in {K_value, K_id},
      v \in FewValues, c \in {Str(S_c), Str(<<>>)} }

\* the mappings that lists and batches are made of
Mappings ==
  { Obj(<<Entry(K_id, Num(1, 0)), Entry(K_name, Str(S_A))>>),
    Obj(<<Entry(K_id, Num(2, 0)), Entry(K_nm, Str(S_A))>>),
    Obj(<<Entry(K_name, Str(S_A)), Entry(K_value, Obj(<<Entry(T_stringValue, Str(S_hi))>>))>>),
    Obj(<<Entry(K_name, Str(S_A)), Entry(K_value, Obj(<<Entry(T_longValue, Num(0, 0))>>)),
          Entry(K_cast, Str(S_c))>>),
    Obj(<<Entry(K_id, Func)>>) }

\* an array of mappings
ListArgs == { Arr(ms) : ms \in SeqsUpTo(Mappings, MaxParams) }

\* ms cut into consecutive non-empty groups, a group ending at each index of cuts
RECURSIVE GroupFrom(_, _, _, _)
GroupFrom(ms, cuts, i, cur) ==
  IF i > Len(ms) THEN <<>>
  ELSE IF i \in cuts \/ i = Len(ms)
    THEN <<Arr(Append(cur, ms[i]))>> \o GroupFrom(ms, cuts, i + 1, <<>>)
  ELSE GroupFrom(ms, cuts, i + 1, Append(cur, ms[i]))

\* the mappings of one name or two that batches are made of
BatchMappings == { m \in Mappings : ~HasKey(m, K_value) }

\* a nested array: parameter sets of mappings
BatchArgs ==
  { Arr(GroupFrom(ms, cuts, 1, <<>>)) :
      <<ms, cuts>> \in { <<m, c>> \in SeqsUpTo(BatchMappings, MaxParams) \X SUBSET (1..(MaxParams - 1)) :
                            Len(m) >= 1 /\ c \subseteq 1..(Len(m) - 1) } }

ParamArgs ==
  PlainArgs \cup OneKeyArgs \cup TwoKeyArgs \cup ThreeKeyArgs \cup ListArgs \cup BatchArgs

(***************************************************************************)
(* Result payloads                                                         *)
(***************************************************************************)
S_a == <<"a">>
S_b == <<"b">>
TN_VARCHAR == <<"V", "A", "R", "C", "H", "A", "R">>
TN_INT == <<"I", "N", "T">>

ColumnMeta(label, typeName) ==
  Obj(<<Entry(K_label, Str(label)), Entry(K_typeName, typeName)>>)

\* the subsequence of the entries whose value is present
Present(entries) == SelectSeq(entries, LAMBDA e : e.val # None)

F_null == Obj(<<Entry(T_isNull, Bool(TRUE))>>)
F_string == Obj(<<Entry(T_stringValue, Str(S_hi))>>)
F_long == Obj(<<Entry(T_isNull, Bool(FALSE)), Entry(T_longValue, Num(0, 0))>>)

GeneratedFieldsChoices ==
  { None, Arr(<<>>),
    Arr(<<Obj(<<Entry(T_longValue, Num(7, 0))>>)>>),
    Arr(<<Obj(<<Entry(T_stringValue, Str(S_hi))>>)>>) }

\* payloads for the response assembler: every way of supplying or leaving
\* out each part
AssemblerPayloads ==
  { Obj(Present(<<Entry(K_columnMetadata, cm), Entry(K_numberOfRecordsUpdated, n),
                  Entry(K_records, recs), Entry(K_generatedFields, gf),
                  Entry(K_updateResults, ur)>>)) :
      cm \in {None, Arr(<<ColumnMeta(S_a, Str(TN_INT))>>)},
      n \in {None, Num(0, 0), Num(3, 0)},
      recs \in {None, Arr(<<>>), Arr(<<Arr(<<F_long>>)>>)},
      gf \in GeneratedFieldsChoices,
      ur \in { None, Arr(<<>>),
               Arr(<<Obj(<<>>), Obj(<<Entry(K_generatedFields, Arr(<<Obj(<<Entry(T_longValue, Num(7, 0))>>)>>))>>)>>),
               Arr(<<Obj(<<Entry(K_generatedFields, Arr(<<Obj(<<Entry(T_stringValue, Str(S_hi))>>)>>))>>)>>) } }

\* result sets of two columns and up to MaxRows rows for field-type
\* discovery: any field may be null; the second column may mix two tags
DiscoveryRows ==
  { Arr(<<c1, c2>>) : c1 \in {F_null, F_string}, c2 \in {F_null, F_string, F_long} }
  \ { Arr(<<F_null, F_long>>) }

DiscoveryPayloads ==
  { Obj(<<Entry(K_columnMetadata,
                Arr(<<ColumnMeta(S_a, Str(TN_VARCHAR)), ColumnMeta(l2, Str(TN_VARCHAR))>>)),
          Entry(K_records, Arr(rows))>>) :
      l2 \in {S_a, S_b}, rows \in SeqsUpTo(DiscoveryRows, MaxRows) \ {<<>>} }

S_date == <<"2", "0", "2", "0", "-", "0", "2", "-", "2", "9">>
S_stamp == S_date \o <<" ", "2", "3", ":", "3", "0", ":", "0", "0">>
S_stampMs == S_stamp \o <<".", "0", "0", "5">>
S_stamp999 == <<"9", "9", "9", "-", "0", "1", "-", "0", "1", " ", "0", "0", ":", "0", "0", ":", "0", "0">>

\* fields for the value coercer: strings that are and are not timestamps,
\* and values that are not strings
CoercerFields ==
  { Obj(<<Entry(T_stringValue, Str(s))>>) : s \in {S_date, S_stamp, S_stampMs, S_stamp999, S_hi, <<>>} }
  \cup { F_null,
         Obj(<<Entry(T_longValue, Num(5, 0))>>),
         Obj(<<Entry(T_doubleValue, Num(55, -1))>>),
         Obj(<<Entry(T_booleanValue, Bool(TRUE))>>),
         Obj(<<Entry(T_blobValue, Buffer(S_hi))>>),
         Obj(<<Entry(T_blobValue, Buffer(S_date))>>) }

TypeNames ==
  { Str(TN_VARCHAR), Str(TN_INT), Str(TN_DATE), Str(TN_DATETIME), Str(TN_TIMESTAMP),
    Str(TN_TIMESTAMPTZ) }

CoercerPayloads ==
  { Obj(<<Entry(K_columnMetadata, Arr(<<ColumnMeta(S_a, tn)>>)),
          Entry(K_records, Arr(<<Arr(<<f>>)>>))>>) :
      tn \in TypeNames, f \in CoercerFields }
  \cup { Obj(<<Entry(K_records, Arr(<<Arr(<<f>>)>>))>>) : f \in CoercerFields }

\* two rows of one column of a date type, whose fields may carry different
\* tags
MemoPayloads ==
  { Obj(<<Entry(K_columnMetadata, Arr(<<ColumnMeta(S_a, Str(TN_DATE))>>)),
          Entry(K_records, Arr(<<Arr(<<f1>>), Arr(<<f2>>)>>))>>) :
      f1 \in {F_null, F_string, F_long}, f2 \in {F_null, F_string, F_long} }

Payloads == AssemblerPayloads \cup DiscoveryPayloads \cup CoercerPayloads \cup MemoPayloads

\* the result set a statement returns that selects, from a column of type
\* typeName, the one value a parameter stored there
EchoPayload(parameter, typeName) ==
  Obj(<<Entry(K_columnMetadata, Arr(<<ColumnMeta(S_a, typeName)>>)),
        Entry(K_records, Arr(<<Arr(<<Prop(parameter, K_value)>>)>>))>>)

(***************************************************************************)
(* The state machine: one codec instance and its caller                    *)
(***************************************************************************)
\* the map that formatResponse(r) builds and leaves behind when it returns;
\* nothing when the payload has no records
fmapOf(r) ==
  IF Truthy(Prop(r, K_records))
    THEN fmapAfter(Prop(r, K_records).items, 1,
                   initFmap(Prop(r, K_records).items, Prop(r, K_columnMetadata)),
                   config.hydrateColumnNames, config.formatOptions)
    ELSE None

\* no call came before
NoCall == [op |-> "none", fmap |-> None]

\* the arguments of the callers that share the instance
SharedParams ==
  { Obj(<<Entry(K_id, v)>>) : v \in FewValues } \cup { Arr(<<m>>) : m \in BatchMappings }

SharedPayloads ==
  { Obj(<<Entry(K_columnMetadata,
                Arr(<<ColumnMeta(S_a, Str(TN_VARCHAR)), ColumnMeta(S_b, Str(TN_VARCHAR))>>)),
          Entry(K_records, Arr(<<row>>))>>) : row \in DiscoveryRows }

\* fmapLeft is the map of the last formatResponse call, as that call left it, and
\* prior the call that came before the one whose result is held
Init ==
  /\ config \in {init(ps) : ps \in InitParams}
  /\ tz \in Zones
  /\ legacy \in LegacyParsers
  /\ pc = "idle"
  /\ op = "none"
  /\ arg = None
  /\ out = None
  /\ chain = None
  /\ fmapLeft = None
  /\ prior = NoCall

\* codec.formatParameters(p)
FormatParameters ==
  /\ pc = "idle"
  /\ \E p \in ParamArgs :
       /\ arg' = p
       /\ out' = formatParameters(p)
  /\ pc' = "done"
  /\ op' = "formatParameters"
  /\ chain' = None
  /\ UNCHANGED <<config, tz, legacy, fmapLeft, prior>>

\* codec.formatResponse(r)
FormatResponse ==
  /\ pc = "idle"
  /\ \E r \in Payloads :
       /\ arg' = r
       /\ out' = Ok(formatResponse(r))
       /\ fmapLeft' = fmapOf(r)
  /\ pc' = "done"
  /\ op' = "formatResponse"
  /\ chain' = None
  /\ UNCHANGED <<config, tz, legacy, prior>>

\* the caller binds the one parameter it has just formatted, the database
\* stores its tagged value in a column of one of two types and returns it, and
\* the caller formats that response; chain keeps the native argument
Echo ==
  /\ pc = "done"
  /\ op = "formatParameters"
  /\ prior = NoCall
  /\ out.ok
  /\ Len(out.val) = 1
  /\ out.val[1].k = "object"
  /\ \E typeName \in {Str(TN_VARCHAR), Str(TN_TIMESTAMP)} :
       /\ arg' = EchoPayload(out.val[1], typeName)
       /\ out' = Ok(formatResponse(arg'))
       /\ fmapLeft' = fmapOf(arg')
  /\ pc' = "done"
  /\ op' = "formatResponse"
  /\ chain' = arg
  /\ UNCHANGED <<config, tz, legacy, prior>>

\* while the result of a call is held, another caller of the same instance
\* calls codec.formatParameters(p)
NextParameters ==
  /\ pc = "done"
  /\ arg \in SharedParams \cup SharedPayloads
  /\ \E p \in SharedParams :
       /\ arg' = p
       /\ out' = formatParameters(p)
  /\ op' = "formatParameters"
  /\ chain' = None
  /\ prior' = [op |-> op, fmap |-> fmapLeft]
  /\ UNCHANGED <<config, tz, legacy, pc, fmapLeft>>

\* while the result of a call is held, another caller of the same instance
\* calls codec.formatResponse(r)
NextResponse ==
  /\ pc = "done"
  /\ arg \in SharedParams \cup SharedPayloads
  /\ \E r \in SharedPayloads :
       /\ arg' = r
       /\ out' = Ok(formatResponse(r))
       /\ fmapLeft' = fmapOf(r)
  /\ op' = "formatResponse"
  /\ chain' = None
  /\ prior' = [op |-> op, fmap |-> fmapLeft]
  /\ UNCHANGED <<config, tz, legacy, pc>>

\* the caller drops the results held, and nothing of the calls remains
Discard ==
  /\ pc = "done"
  /\ pc' = "idle"
  /\ op' = "none"
  /\ arg' = None
  /\ out' = None
  /\ chain' = None
  /\ fmapLeft' = None
  /\ prior' = NoCall
  /\ UNCHANGED <<config, tz, legacy>>

Next ==
  \/ FormatParameters
  \/ FormatResponse
  \/ Echo
  \/ NextParameters
  \/ NextResponse
  \/ Discard

Spec == Init /\ [][Next]_vars

(***************************************************************************)
(* What a finished call shows                                              *)
(***************************************************************************)
ParamsDone == pc = "done" /\ op = "formatParameters"

ResponseDone == pc = "done" /\ op = "formatResponse"

\* the call was formatParameters({ key: v }) for one key
OneKeyCall == ParamsDone /\ arg.k = "object" /\ Len(arg.entries) = 1

\* the value formatResponse reports for column c of row r
Reported(r, c) ==
  LET row == Get(out.val, K_records).items[r]
      cols == Prop(arg, K_columnMetadata)
      label == IF Truthy(cols) THEN Prop(cols.items[c], K_label) ELSE Undefined
  IN  IF config.hydrateColumnNames THEN Get(row, ToChars(label)) ELSE row.items[c]

\* the raw field of column c in row r of the payload
RawField(r, c) == Prop(arg, K_records).items[r].items[c]

RowCount == IF Truthy(Prop(arg, K_records)) THEN Len(Prop(arg, K_records).items) ELSE 0

ColCount(r) == Len(Prop(arg, K_records).items[r].items)

TypeNameOf(c) ==
  IF Truthy(Prop(arg, K_columnMetadata))
    THEN Prop(Prop(arg, K_columnMetadata).items[c], K_typeName) ELSE Undefined

IsNullField(f) == Get(f, T_isNull) = Bool(TRUE)

\* the tags a raw field carries, and the value wrapped under its one tag
TagsOf(f) == { f.entries[i].key : i \in 1..Len(f.entries) } \ {T_isNull}

OwnValue(f) == Get(f, CHOOSE t \in TagsOf(f) : TRUE)

(***************************************************************************)
(* C1: a native value gets its tag by the fixed precedence string, boolean, *)
(* integral number (long), other number (double), null (isNull: true),     *)
(* Date (stringValue of the timestamp, with typeHint TIMESTAMP), Buffer    *)
(* (blobValue); one tag is produced, and typeHint only for a Date.  A Date  *)
(* is one that holds a time: an Invalid Date has no timestamp to format.   *)
(***************************************************************************)
C1_Native(v) ==
  \/ v.k \in {"string", "boolean", "null", "buffer"}
  \/ v.k = "date" /\ v.valid
  \/ v.k = "number" /\ (StrictEqNum(parseInt(v), v) \/ StrictEqNum(parseFloat(v), v))

C1_Wire(v) ==
  CASE v.k = "string" -> Obj(<<Entry(T_stringValue, v)>>)
    [] v.k = "boolean" -> Obj(<<Entry(T_booleanValue, v)>>)
    [] v.k = "number" ->
         IF StrictEqNum(parseInt(v), v) THEN Obj(<<Entry(T_longValue, v)>>)
         ELSE Obj(<<Entry(T_doubleValue, v)>>)
    [] v.k = "null" -> Obj(<<Entry(T_isNull, Bool(TRUE))>>)
    [] v.k = "date" ->
         Obj(<<Entry(T_stringValue,
                     Str(formatToTimeStamp(v, config.formatOptions.treatAsLocalDate)))>>)
    [] OTHER -> Obj(<<Entry(T_blobValue, v)>>)

C1_TagPrecedence ==
  (OneKeyCall /\ C1_Native(arg.entries[1].val)) =>
    LET v == arg.entries[1].val
    IN  /\ out.ok /\ Len(out.val) = 1
        /\ Get(out.val[1], K_name) = Str(arg.entries[1].key)
        /\ Get(out.val[1], K_value) = C1_Wire(v)
        /\ Len(Get(out.val[1], K_value).entries) = 1
        /\ HasKey(out.val[1], K_typeHint) <=> v.k = "date"
        /\ v.k = "date" => Get(out.val[1], K_typeHint) = Str(TIMESTAMP)
        /\ v = Num(5, 0) => HasKey(Get(out.val[1], K_value), T_longValue)
        /\ v = Num(55, -1) => HasKey(Get(out.val[1], K_value), T_doubleValue)

C1_Witness ==
  /\ OneKeyCall /\ out.ok
  /\ arg.entries[1].val = Num(5, 0)
  /\ Get(out.val[1], K_value) = Obj(<<Entry(T_longValue, Num(5, 0))>>)

(***************************************************************************)
(* C2: a nested array whose inner arrays hold one mapping each gives one   *)
(* parameter set per inner array, in order, with one parameter per key of  *)
(* the mapping, named after the key, whatever the keys are; no such call   *)
(* fails.                                                                  *)
(***************************************************************************)
C2_PlainMapping(m) ==
  /\ m.k = "object"
  /\ \A j \in 1..Len(m.entries) : m.entries[j].val.k \in {"number", "string"}

C2_IsBatch ==
  /\ ParamsDone /\ arg.k = "array" /\ Len(arg.items) >= 1
  /\ \A i \in 1..Len(arg.items) :
       /\ arg.items[i].k = "array"
       /\ Len(arg.items[i].items) = 1
       /\ C2_PlainMapping(arg.items[i].items[1])

C2_BatchSets ==
  C2_IsBatch =>
    /\ out.ok
    /\ Len(out.val) = Len(arg.items)
    /\ \A i \in 1..Len(arg.items) :
         LET m == arg.items[i].items[1]
         IN  /\ out.val[i].k = "array"
             /\ Len(out.val[i].items) = Len(m.entries)
             /\ \A j \in 1..Len(m.entries) :
                  Get(out.val[i].items[j], K_name) = Str(m.entries[j].key)

(***************************************************************************)
(* C3: a hand-built parameter { name, value: { tag: x } }, with or without *)
(* cast as a third key, passed alone or inside an array, appears in the    *)
(* output with the same keys and the same values.                          *)
(***************************************************************************)
C3_KeySet(o) == { o.entries[i].key : i \in 1..Len(o.entries) }

C3_SameObject(a, b) ==
  /\ a.k = "object" /\ b.k = "object"
  /\ C3_KeySet(a) = C3_KeySet(b)
  /\ \A key \in C3_KeySet(a) : Get(a, key) = Get(b, key)

C3_IsWire(v) ==
  v.k = "object" /\ Len(v.entries) = 1 /\ v.entries[1].key \in supportedTypes

C3_HandBuilt(q) ==
  /\ q.k = "object"
  /\ C3_KeySet(q) \in {{K_name, K_value}, {K_name, K_value, K_cast}}
  /\ Get(q, K_name).k = "string" /\ Truthy(Get(q, K_name))
  /\ C3_IsWire(Get(q, K_value))
  /\ HasKey(q, K_cast) => Truthy(Get(q, K_cast))

\* the hand-built parameters of the call: the argument, or items of it
C3_Given ==
  IF ~ParamsDone THEN {}
  ELSE IF arg.k = "array"
    THEN { arg.items[i] : i \in { j \in 1..Len(arg.items) : C3_HandBuilt(arg.items[j]) } }
  ELSE IF C3_HandBuilt(arg) THEN {arg} ELSE {}

C3_EscapeHatch ==
  \A q \in C3_Given :
    out.ok => \E j \in 1..Len(out.val) : C3_SameObject(out.val[j], q)

(***************************************************************************)
(* C4: formatResponse reports null for a field marked isNull and the       *)
(* wrapped value for a field that carries a tag, whichever row of the      *)
(* column is the first to carry one (columns of one tag; in hydrated mode  *)
(* a column whose label no later column repeats).                          *)
(***************************************************************************)
C4_Homogeneous(c) ==
  Cardinality(UNION { TagsOf(RawField(r, c)) :
                        r \in { q \in 1..RowCount : ~IsNullField(RawField(q, c)) } }) <= 1

C4_LabelKey(c) ==
  IF Truthy(Prop(arg, K_columnMetadata))
    THEN ToChars(Prop(Prop(arg, K_columnMetadata).items[c], K_label))
    ELSE S_undefined

C4_Visible(c) ==
  ~config.hydrateColumnNames
  \/ \A d \in (c + 1)..ColCount(1) : C4_LabelKey(d) # C4_LabelKey(c)

C4_Discovery ==
  (ResponseDone /\ RowCount >= 1) =>
    \A r \in 1..RowCount : \A c \in 1..ColCount(r) :
      (C4_Homogeneous(c) /\ C4_Visible(c)) =>
        Reported(r, c) =
          IF IsNullField(RawField(r, c)) THEN Null
          ELSE formatRecordValue(OwnValue(RawField(r, c)), TypeNameOf(c), config.formatOptions)

C4_Witness ==
  /\ ResponseDone /\ RowCount >= 2 /\ ColCount(1) = 2
  /\ C4_Visible(1) /\ C4_Visible(2)
  /\ ~IsNullField(RawField(1, 1)) /\ IsNullField(RawField(1, 2))
  /\ ~IsNullField(RawField(2, 2))
  /\ Reported(1, 2) = Null
  /\ Reported(2, 2) = OwnValue(RawField(2, 2))

(***************************************************************************)
(* C5: the result of formatResponse has exactly the keys whose source data *)
(* the payload holds, and none of them with an undefined or null value.    *)
(***************************************************************************)
C5_ExpectedKeys ==
  { key \in {K_columnMetadata, K_updateResults, K_records} : HasKey(arg, key) }
  \cup (IF HasKey(arg, K_numberOfRecordsUpdated) /\ ~HasKey(arg, K_records)
          THEN {K_numberOfRecordsUpdated} ELSE {})
  \cup (IF HasKey(arg, K_generatedFields) /\ Len(Get(arg, K_generatedFields).items) > 0
          THEN {K_insertId} ELSE {})

C5_ExactKeys ==
  ResponseDone =>
    /\ C3_KeySet(out.val) = C5_ExpectedKeys
    /\ \A i \in 1..Len(out.val.entries) : out.val.entries[i].val.k \notin {"undefined", "null"}
    /\ arg = Obj(<<Entry(K_numberOfRecordsUpdated, Num(3, 0))>>) => out.val = arg

(***************************************************************************)
(* C6: formatParameters fails with "'parameters' must be an object or      *)
(* array" for every string, number or boolean argument, the falsy ones     *)
(* included; with no argument it returns the empty list.                   *)
(***************************************************************************)
C6_InvalidShape ==
  ParamsDone =>
    /\ arg.k \in {"string", "number", "boolean"} =>
         ~out.ok /\ out.error.text = "'parameters' must be an object or array"
    /\ arg = Undefined => out = Ok(<<>>)

(***************************************************************************)
(* C7: when a parameter's value matches no type rule the call throws an    *)
(* error naming that parameter and returns no list, wherever the parameter *)
(* sits; the parameters are the { name, value } pairs the normalizer       *)
(* delivers.                                                               *)
(***************************************************************************)
RECURSIVE C7_Flatten(_)
C7_Flatten(ps) ==
  IF ps = <<>> THEN <<>>
  ELSE (IF Head(ps).k = "array" THEN C7_Flatten(Head(ps).items) ELSE <<Head(ps)>>)
       \o C7_Flatten(Tail(ps))

C7_Parsed == parseParams(<<Obj(<<Entry(K_parameters, arg)>>)>>)

C7_Normal == normalizeParams(C7_Parsed.val)

C7_NoRule(v) ==
  \/ v.k \in {"function", "symbol", "undefined", "array"}
  \/ v.k = "object" /\ ~(Len(v.entries) = 1 /\ v.entries[1].key \in supportedTypes)
  \/ v = NaN

C7_Offending(ps) == { i \in 1..Len(ps) : C7_NoRule(Prop(ps[i], K_value)) }

C7_FirstOffending(ps) ==
  CHOOSE i \in C7_Offending(ps) : \A j \in C7_Offending(ps) : i <= j

\* no parameter is an Invalid Date, whose formatting fails for another reason
C7_NoInvalidDate(ps) == \A i \in 1..Len(ps) : Prop(ps[i], K_value) # InvalidDate

C8_RoundTripCase ==
  /\ ResponseDone /\ chain # None
  /\ chain.k = "object" /\ Len(chain.entries) = 1
  /\ chain.entries[1].val.k = "date"
  /\ chain.entries[1].val.f.ms = 0
  /\ ~config.formatOptions.treatAsLocalDate
  /\ config.formatOptions.deserializeDate
  /\ TypeNameOf(1) = Str(TN_TIMESTAMP)

C8_RoundTrip == C8_RoundTripCase => Reported(1, 1) = chain.entries[1].val

\* the round trip of the years of four digits, which the parser recognizes
C8_RoundTripFourDigits ==
  (C8_RoundTripCase /\ chain.entries[1].val.f.Y \in 1000..9999) =>
    Reported(1, 1) = chain.entries[1].val

(***************************************************************************)
(* C9: the formatted timestamp has a fraction exactly when the             *)
(* milliseconds are not zero, a dot and 3 digits; month, day, hours,       *)
(* minutes and seconds have 2 digits each; the fields are the UTC fields,  *)
(* or the local ones when treatAsLocalDate.                                *)
(***************************************************************************)
C9_Format ==
  (OneKeyCall /\ arg.entries[1].val.k = "date" /\ arg.entries[1].val.valid) =>
    LET d == arg.entries[1].val
        s == Get(Get(out.val[1], K_value), T_stringValue).s
        f == IF config.formatOptions.treatAsLocalDate THEN LocalFields(d.f) ELSE d.f
        sh == StampShape(s)
    IN  /\ sh.ok /\ sh.hasTime /\ ~sh.hasZ
        /\ sh.hasFrac <=> d.f.ms # 0
        /\ Len(s) = sh.ny + 15 + (IF d.f.ms # 0 THEN 4 ELSE 0)
        /\ StampFields(s, sh) = f
        /\ f.h = (d.f.h + (IF config.formatOptions.treatAsLocalDate THEN tz ELSE 0)) % 24

C9_Witness ==
  /\ OneKeyCall /\ out.ok
  /\ arg.entries[1].val.k = "date"
  /\ arg.entries[1].val.f.ms = 5
  /\ config.formatOptions.treatAsLocalDate /\ tz = 1
  /\ arg.entries[1].val.f.h = 23
  /\ LET s == Get(Get(out.val[1], K_value), T_stringValue).s
     IN  SubSeq(s, Len(s) - 3, Len(s)) = <<".", "0", "0", "5">>

(***************************************************************************)
(* C10: the value coercer changes a value only when date deserialization   *)
(* is enabled, the column's typeName is one of the four date types and the *)
(* unwrapped value is a string; every other value is returned unchanged.   *)
(***************************************************************************)
C10_OneField ==
  /\ ResponseDone /\ RowCount = 1 /\ ColCount(1) = 1
  /\ ~IsNullField(RawField(1, 1))

C10_PassThrough ==
  C10_OneField =>
    LET u == OwnValue(RawField(1, 1))
    IN  ~( /\ config.formatOptions.deserializeDate
           /\ TypeNameOf(1) \in dateTypeNames
           /\ u.k = "string" )
        => Reported(1, 1) = u

(***************************************************************************)
(* C11: a string, boolean, integral number, null or blob value, wrapped by *)
(* formatParameters and handed back as the one field of a column that is   *)
(* no date type, is the value formatResponse reports.                      *)
(***************************************************************************)
C11_Unwrappable(v) ==
  \/ v.k \in {"string", "boolean", "null", "buffer"}
  \/ v.k = "number" /\ StrictEqNum(parseInt(v), v)

C11_Case ==
  /\ ResponseDone /\ chain # None
  /\ chain.k = "object" /\ Len(chain.entries) = 1
  /\ C11_Unwrappable(chain.entries[1].val)
  /\ TypeNameOf(1) = Str(TN_VARCHAR)

C11_WrapUnwrap ==
  C11_Case =>
    /\ RowCount = 1 /\ ColCount(1) = 1
    /\ RawField(1, 1) = C1_Wire(chain.entries[1].val)
    /\ Reported(1, 1) = chain.entries[1].val

C11_Witness ==
  /\ C11_Case
  /\ chain.entries[1].val = Num(0, 0)
  /\ RawField(1, 1) = Obj(<<Entry(T_longValue, Num(0, 0))>>)
  /\ Reported(1, 1) = Num(0, 0)

(***************************************************************************)
(* C12: for the same rows and column metadata, the hydrated projection is  *)
(* one mapping per row from column label to value and the positional one   *)
(* is one sequence per row with the value of column i at place i; a label  *)
(* maps to the value of the last column that bears it, so the two agree on *)
(* every column of a unique label and a later duplicate overwrites.        *)
(***************************************************************************)
C12_Case ==
  /\ ResponseDone /\ RowCount >= 1
  /\ Truthy(Prop(arg, K_columnMetadata))

\* the rows in the mode hydrate: those of the result when it is the mode of
\* the instance, else those formatRecords gives for the same payload
C12_Rows(hydrate) ==
  IF config.hydrateColumnNames = hydrate THEN Get(out.val, K_records).items
  ELSE formatRecords(Prop(arg, K_records), Prop(arg, K_columnMetadata), hydrate,
                     config.formatOptions).items

C12_Hydrated == C12_Rows(TRUE)

C12_Positional == C12_Rows(FALSE)

\* the last column of row r that bears the label of column c
C12_LastOf(r, c) ==
  CHOOSE d \in c..ColCount(r) :
    /\ C4_LabelKey(d) = C4_LabelKey(c)
    /\ \A e \in (d + 1)..ColCount(r) : C4_LabelKey(e) # C4_LabelKey(c)

\* H and P are the hydrated and the positional rows of the payload
C12_Agree(H, P) ==
  /\ Len(H) = RowCount /\ Len(P) = RowCount
  /\ \A r \in 1..RowCount :
       /\ P[r].k = "array"
       /\ Len(P[r].items) = ColCount(r)
       /\ H[r].k = "object"
       /\ C3_KeySet(H[r]) = { C4_LabelKey(c) : c \in 1..ColCount(r) }
       /\ \A c \in 1..ColCount(r) :
            Get(H[r], C4_LabelKey(c)) = P[r].items[C12_LastOf(r, c)]
  /\ \A c \in 1..ColCount(1) :
       C4_Homogeneous(c) =>
         \A r \in 1..RowCount :
           P[r].items[c] =
             IF IsNullField(RawField(r, c)) THEN Null
             ELSE formatRecordValue(OwnValue(RawField(r, c)), TypeNameOf(c),
                                    config.formatOptions)

C12_Projection == C12_Case => C12_Agree(C12_Hydrated, C12_Positional)

\* two columns of one label and different values, reported in hydrated mode
C12_Witness ==
  /\ C12_Case /\ config.hydrateColumnNames
  /\ ColCount(1) = 2 /\ C4_LabelKey(1) = C4_LabelKey(2)
  /\ C12_Positional[1].items[1] = Str(S_hi)
  /\ C12_Positional[1].items[2] = Num(0, 0)
  /\ Get(out.val, K_records).items[1] = Obj(<<Entry(S_a, Num(0, 0))>>)

(***************************************************************************)
(* C13: a call made on an instance while the result of an earlier call is  *)
(* held gives what its own argument and the configuration determine: the   *)
(* values of its own fields, a field-type map holding the tags of its own  *)
(* fields only, the parameters of its own mapping; no tag of the earlier   *)
(* result set is applied to it.                                            *)
(***************************************************************************)
C13_Interleaved == pc = "done" /\ prior # NoCall

\* the tag a one-row result set leaves for column c
C13_OwnTag(c) ==
  IF IsNullField(RawField(1, c)) THEN JSundefined
  ELSE CHOOSE t \in TagsOf(RawField(1, c)) : TRUE

C13_OwnResponse ==
  /\ RowCount = 1
  /\ Len(fmapLeft) = ColCount(1)
  /\ \A c \in 1..ColCount(1) :
       /\ fmapLeft[c].field = C13_OwnTag(c)
       /\ C4_Visible(c) =>
            Reported(1, c) =
              IF IsNullField(RawField(1, c)) THEN Null ELSE OwnValue(RawField(1, c))

C13_OwnParameters ==
  /\ out = formatParameters(arg)
  /\ (OneKeyCall /\ C1_Native(arg.entries[1].val)) =>
       out = Ok(<<Obj(<<Entry(K_name, Str(arg.entries[1].key)),
                        Entry(K_value, C1_Wire(arg.entries[1].val))>>)>>)

C13_Independent ==
  C13_Interleaved =>
    /\ ResponseDone => C13_OwnResponse
    /\ ParamsDone => C13_OwnParameters

\* the earlier result set left the tag longValue for column 2, and this one
\* carries a string there
C13_Witness ==
  /\ C13_Interleaved /\ ResponseDone
  /\ prior.op = "formatResponse"
  /\ prior.fmap[2].field = T_longValue
  /\ RawField(1, 2) = F_string
  /\ C4_Visible(2)
  /\ Reported(1, 2) = Str(S_hi)
  /\ fmapLeft[2].field = T_stringValue

(***************************************************************************)
(* C14: within one formatResponse call a tag discovered for a column is    *)
(* never changed; a later field that is not null is read under that tag,   *)
(* so a field carrying another tag reports undefined and not its own       *)
(* value; a field marked isNull reports null and leaves the tag alone.     *)
(***************************************************************************)
\* the map as rows 1..r of the payload leave it
C14_MapAfter(r) ==
  fmapAfter(SubSeq(Prop(arg, K_records).items, 1, r), 1,
            initFmap(Prop(arg, K_records).items, Prop(arg, K_columnMetadata)),
            config.hydrateColumnNames, config.formatOptions)

\* row r, read with the map before as the rows above left it and leaving after
C14_RowMemoized(r, before, after) ==
  \A c \in 1..ColCount(r) :
    LET field == RawField(r, c)
        tag == before[c].field
    IN  /\ tag # JSundefined => after[c].field = tag
        /\ IsNullField(field) =>
             /\ after[c].field = tag
             /\ C4_Visible(c) => Reported(r, c) = Null
        /\ (~IsNullField(field) /\ tag # JSundefined /\ C4_Visible(c)) =>
             Reported(r, c) =
               IF HasKey(field, tag)
                 THEN formatRecordValue(Get(field, tag), TypeNameOf(c), config.formatOptions)
                 ELSE Undefined

C14_Case == ResponseDone /\ RowCount >= 1 /\ \A r \in 1..RowCount : ColCount(r) = ColCount(1)

C14_Memoized ==
  C14_Case =>
    \A r \in 1..RowCount : C14_RowMemoized(r, C14_MapAfter(r - 1), C14_MapAfter(r))

\* the same for the result sets none of whose columns is of a date type that
\* the instance deserializes
C14_NoDateColumn ==
  \A c \in 1..ColCount(1) :
    ~(config.formatOptions.deserializeDate /\ TypeNameOf(c) \in dateTypeNames)

C14_MemoizedPlain ==
  (C14_Case /\ C14_NoDateColumn) =>
    \A r \in 1..RowCount : C14_RowMemoized(r, C14_MapAfter(r - 1), C14_MapAfter(r))

\* a column whose first row left the tag stringValue and whose second row
\* carries longValue reports undefined there
C14_Witness ==
  /\ C14_Case /\ C14_NoDateColumn /\ RowCount >= 2 /\ ColCount(1) = 2
  /\ C4_Visible(2)
  /\ C14_MapAfter(1)[2].field = T_stringValue
  /\ RawField(2, 2) = F_long
  /\ Reported(2, 2) = Undefined

====
